---- MODULE Spec2Model ----
(***************************************************************************)
(* Adaptive proficiency engine of the "aware" backend.                     *)
(*                                                                         *)
(* State: the MongoDB collections test_results and student_enrollments,    *)
(* the payload of the request being answered and the outcome of the last   *)
(* operation; further the courses, users and tokens collections, the       *)
(* tokens handed to clients and the wall clock.  Specifications:           *)
(*   SpecDB    - the AtomicDB operations called directly                   *)
(*               (insert_test_result, enroll_student,                      *)
(*               calculate_and_update_adaptive_proficiency);               *)
(*   Spec      - the request handlers enroll_in_course and submit_test of  *)
(*               app.py with every shape of submit payload, one request at *)
(*               a time: a handler runs, its response stays in response    *)
(*               until the client has received it;                         *)
(*   SpecFlow  - the handlers of app.py that write test_results,           *)
(*               student_enrollments or courses, with three payloads       *)
(*               (0, 50 and 100 percent), long enough for the window of 3  *)
(*               results to slide, and a second student who submits        *)
(*               without enrolling;                                        *)
(*   SpecLevels- the same handlers with requests that carry any string as  *)
(*               a level, while time passes;                               *)
(*   SpecEnroll- the writes to student_enrollments as MongoDB update_one   *)
(*               calls on the documents of the collection;                 *)
(*   SpecAuth  - register, login, logout and a protected endpoint, one     *)
(*               request at a time;                                        *)
(*   SpecRace  - two threads inside submit_test, storage call by storage   *)
(*               call;                                                     *)
(*   SpecCrash - submits one after the other, storage call by storage      *)
(*               call, on threads that can die after the insert;           *)
(*   SpecSignup- two threads inside register, storage call by storage      *)
(*               call;                                                     *)
(*   SpecSession-two threads inside login, storage call by storage call.   *)
(* courses moves under SpecFlow and SpecLevels only, clock under           *)
(* SpecLevels only, enrollment_docs under SpecEnroll only, users, tokens   *)
(* and issued under SpecAuth, SpecSignup and SpecSession only, pc and      *)
(* locals under the four specifications that follow threads.               *)
(*                                                                         *)
(* Percentages are floats rounded to 2 decimals in the code; here they are *)
(* integers counting hundredths of a percent (33.33 is 3333).              *)
(* created_at is the position of a document in test_results: documents    *)
(* are only ever appended, so sorting by created_at descending is reading  *)
(* the sequence from its end.                                              *)
(***************************************************************************)
EXTENDS Integers, Sequences, FiniteSets, TLC

VARIABLES test_results, student_enrollments, updated_at, window,
          courses, clock, enrollment_docs, users, tokens, issued,
          request, response, pc, locals

vars == <<test_results, student_enrollments, updated_at, window,
          courses, clock, enrollment_docs, users, tokens, issued,
          request, response, pc, locals>>

\* The users and tokens collections and the tokens clients hold.
authvars == <<users, tokens, issued>>

\* The threads of the server that run request handlers side by side: where
\* each one is in its handler (pc) and its local variables (locals).
procvars == <<pc, locals>>

-----------------------------------------------------------------------------
(* Bounds *)

\* Largest number of documents in test_results.
MaxResults == 3

\* Largest number of documents in test_results under Spec, whose requests
\* carry whole questions lists and answer mappings.
MaxSubmits == 1

\* Longest questions list of a submit request.
MaxQuestions == 2

\* Largest number of documents in test_results under SpecFlow.
MaxFlowResults == 4

\* Largest value of the clock.
MaxClock == 1

\* Largest number of tokens handed out by login.
MaxLogins == 2

\* Largest number of documents in test_results under SpecRace and SpecCrash.
MaxRaceResults == 4

-----------------------------------------------------------------------------
(* Values *)

\* Python's None / JSON null / a missing key as seen through dict.get.
NoneV == "None"

\* A question record without a question_number (question.get gives None).
NoneNum == -1

Students == {"s1", "s2"}

Courses == {"c1"}

Levels == {"beginner", "intermediate", "advanced"}

\* The enrollment of a pair that has no document in student_enrollments.
NotEnrolled == "not_enrolled"

\* Thresholds of the classifier, in hundredths of a percent.
Thirty == 3000

Seventy == 7000

\* The size of the classification window.
WindowSize == 3

-----------------------------------------------------------------------------
(* Scoring of a submission *)

\* round(x, 2) of x = num / den * 100, as an integer number of hundredths:
\* the nearest integer to num * 10000 / den.  An exact tie needs 32 | den; the
\* float's binary value then decides, and the even neighbour is taken here.
RoundHundredths(num, den) ==
    LET scaled == num * 10000
        q == scaled \div den
        r == scaled % den
    IN  IF 2 * r < den THEN q
        ELSE IF 2 * r > den THEN q + 1
        ELSE IF q % 2 = 0 THEN q ELSE q + 1

\* Percentage dividing by max(total_questions, 1) instead of guarding.
PercentageClampedTotal(score, total_questions) ==
    IF total_questions > 0
    THEN RoundHundredths(score, total_questions)
    ELSE RoundHundredths(score, 1)

\* percentage = (score / total_questions * 100) if total_questions > 0 else 0,
\* then round(percentage, 2).
Percentage(score, total_questions) ==
    IF total_questions > 0
    THEN RoundHundredths(score, total_questions)
    ELSE 0

\* str(q_num) of a question number.
ToStr(n) == IF n = 0 THEN "0" ELSE IF n = 1 THEN "1" ELSE "2"

\* Python truthiness of a question number (None and 0 are falsy).
TruthyNum(n) == n /= NoneNum /\ n /= 0

\* Python truthiness of an answer string (None and "" are falsy).
TruthyStr(a) == a /= NoneV /\ a /= ""

\* The loop building correct_answers: a question whose number and correct
\* answer are both truthy sets correct_answers[str(q_num)]; a later question
\* with the same key overwrites an earlier one.
RECURSIVE CorrectAnswers(_)
CorrectAnswers(questions) ==
    IF questions = <<>> THEN <<>>
    ELSE LET n == Len(questions)
             rest == CorrectAnswers(SubSeq(questions, 1, n - 1))
             q == questions[n]
         IN  IF TruthyNum(q.question_number) /\ TruthyStr(q.correct_answer)
             THEN [k \in (DOMAIN rest) \cup {ToStr(q.question_number)} |->
                      IF k = ToStr(q.question_number)
                      THEN q.correct_answer ELSE rest[k]]
             ELSE rest

\* dict.get(key): the value, or None when the key is missing.
Get(d, k) == IF k \in DOMAIN d THEN d[k] ELSE NoneV

\* The scoring loop: one point for every entry of student_answers whose value
\* equals correct_answers.get(str(q_num)).
Score(questions, student_answers) ==
    LET correct_answers == CorrectAnswers(questions)
    IN  Cardinality({k \in DOMAIN student_answers :
                        Get(correct_answers, k) = student_answers[k]})

-----------------------------------------------------------------------------
(* QueryDB / AtomicDB operations, as functions of the collections *)

\* get_enrollment_proficiency: the level of the pair's enrollment document,
\* None when the document is missing or its level is None.
get_enrollment_proficiency(enrollments, s, c) ==
    IF enrollments[<<s, c>>] = NotEnrolled THEN NoneV ELSE enrollments[<<s, c>>]

\* enroll_student: update_one(..., upsert=True) creates the pair's document or
\* overwrites its proficiency_level.
enroll_student(enrollments, s, c, level) ==
    [enrollments EXCEPT ![<<s, c>>] = level]

\* update_enrollment_proficiency that keeps a level once one is stored: the
\* first write wins.
update_enrollment_proficiency_FirstWins(enrollments, s, c, level, storage_ok) ==
    IF storage_ok /\ enrollments[<<s, c>>] = NoneV
    THEN [enrollments EXCEPT ![<<s, c>>] = level]
    ELSE enrollments

\* update_enrollment_proficiency: update_one without upsert changes the
\* pair's document when there is one; a storage error is swallowed.
update_enrollment_proficiency(enrollments, s, c, level, storage_ok) ==
    IF storage_ok /\ enrollments[<<s, c>>] /= NotEnrolled
    THEN [enrollments EXCEPT ![<<s, c>>] = level]
    ELSE enrollments

\* insert_test_result as an update of the pair's document, which overwrites
\* the pair's earlier results.
insert_test_result_Overwrite(results, doc) ==
    LET Same(i) == /\ results[i].student_username = doc.student_username
                   /\ results[i].course_id = doc.course_id
    IN  IF \E i \in DOMAIN results : Same(i)
        THEN [i \in DOMAIN results |-> IF Same(i) THEN doc ELSE results[i]]
        ELSE Append(results, doc)

\* insert_test_result: the document is appended; created_at is its position.
insert_test_result(results, doc) == Append(results, doc)

\* The find with sort("created_at", 1): the pair's oldest documents.
FindLast3_Oldest(results, s, c) ==
    LET mine == SelectSeq(results,
                    LAMBDA d : d.student_username = s /\ d.course_id = c)
        n == Len(mine)
        k == IF n < WindowSize THEN n ELSE WindowSize
    IN  [i \in 1..k |-> mine[i]]

\* The find without its filter: the newest documents of the collection,
\* whichever pair they belong to.
FindLast3_AnyPair(results, s, c) ==
    LET n == Len(results)
        k == IF n < WindowSize THEN n ELSE WindowSize
    IN  [i \in 1..k |-> results[n - i + 1]]

\* find({student_username, course_id}).sort("created_at", -1).limit(3):
\* the pair's documents, newest first, at most WindowSize of them.
FindLast3(results, s, c) ==
    LET mine == SelectSeq(results,
                    LAMBDA d : d.student_username = s /\ d.course_id = c)
        n == Len(mine)
        k == IF n < WindowSize THEN n ELSE WindowSize
    IN  [i \in 1..k |-> mine[n - i + 1]]

\* percentages = [test.get("percentage", 0) for test in last_3_tests]; every
\* stored document has a percentage, so the default 0 is never taken.
Percentages(last_3_tests) ==
    [i \in DOMAIN last_3_tests |-> last_3_tests[i].percentage]

\* below_30 with the threshold written as p <= 29.
below_30_AtMost29(percentages) ==
    Cardinality({i \in DOMAIN percentages : percentages[i] <= Thirty - 100})

\* below_30 with p <= 30 for p < 30.
below_30_Inclusive(percentages) ==
    Cardinality({i \in DOMAIN percentages : percentages[i] <= Thirty})

\* below_30 whose loop skips the newest result.
below_30_SkipFirst(percentages) ==
    Cardinality({i \in DOMAIN percentages \ {1} : percentages[i] < Thirty})

below_30(percentages) ==
    Cardinality({i \in DOMAIN percentages : percentages[i] < Thirty})

between_30_70(percentages) ==
    Cardinality({i \in DOMAIN percentages :
                    Thirty <= percentages[i] /\ percentages[i] < Seventy})

\* above_70 with p > 70 for p >= 70.
above_70_Strict(percentages) ==
    Cardinality({i \in DOMAIN percentages : percentages[i] > Seventy})

above_70(percentages) ==
    Cardinality({i \in DOMAIN percentages : percentages[i] >= Seventy})

\* The chain without its final else: new_proficiency stays None.
NewProficiency_NoDefault(percentages) ==
    IF below_30(percentages) = 3 THEN "beginner"
    ELSE IF above_70(percentages) = 3 THEN "advanced"
    ELSE IF between_30_70(percentages) >= 2 THEN "intermediate"
    ELSE IF above_70(percentages) >= 2 THEN "advanced"
    ELSE IF below_30(percentages) >= 2 THEN "beginner"
    ELSE NoneV

\* The chain without the rule "above_70 >= 2".
NewProficiency_NoTwoHigh(percentages) ==
    IF below_30(percentages) = 3 THEN "beginner"
    ELSE IF above_70(percentages) = 3 THEN "advanced"
    ELSE IF between_30_70(percentages) >= 2 THEN "intermediate"
    ELSE IF below_30(percentages) >= 2 THEN "beginner"
    ELSE "intermediate"

\* The chain with a label outside the enum in its final else.
NewProficiency_Mixed(percentages) ==
    IF below_30(percentages) = 3 THEN "beginner"
    ELSE IF above_70(percentages) = 3 THEN "advanced"
    ELSE IF between_30_70(percentages) >= 2 THEN "intermediate"
    ELSE IF above_70(percentages) >= 2 THEN "advanced"
    ELSE IF below_30(percentages) >= 2 THEN "beginner"
    ELSE "mixed"

\* The chain without the rule "below_30 >= 2".
NewProficiency_NoTwoLow(percentages) ==
    IF below_30(percentages) = 3 THEN "beginner"
    ELSE IF above_70(percentages) = 3 THEN "advanced"
    ELSE IF between_30_70(percentages) >= 2 THEN "intermediate"
    ELSE IF above_70(percentages) >= 2 THEN "advanced"
    ELSE "intermediate"

\* The if / elif chain of calculate_and_update_adaptive_proficiency.
NewProficiency(percentages) ==
    IF below_30(percentages) = 3 THEN "beginner"
    ELSE IF above_70(percentages) = 3 THEN "advanced"
    ELSE IF between_30_70(percentages) >= 2 THEN "intermediate"
    ELSE IF above_70(percentages) >= 2 THEN "advanced"
    ELSE IF below_30(percentages) >= 2 THEN "beginner"
    ELSE "intermediate"

\* AdaptiveLevel with len(last_3_tests) < 2 for < 3.
AdaptiveLevel_Min2(last_3_tests) ==
    IF Len(last_3_tests) < 2 THEN NoneV
    ELSE NewProficiency(Percentages(last_3_tests))

\* AdaptiveLevel that keeps the level the 3 documents record when they all
\* record the same one.
AdaptiveLevel_Sticky(last_3_tests) ==
    IF Len(last_3_tests) < 3 THEN NoneV
    ELSE IF /\ last_3_tests[1].proficiency_level
                  = last_3_tests[2].proficiency_level
            /\ last_3_tests[2].proficiency_level
                  = last_3_tests[3].proficiency_level
    THEN last_3_tests[1].proficiency_level
    ELSE NewProficiency(Percentages(last_3_tests))

\* What calculate_and_update_adaptive_proficiency returns for the window it
\* read: None for fewer than 3 documents, else the new level.
AdaptiveLevel(last_3_tests) ==
    IF Len(last_3_tests) < 3 THEN NoneV
    ELSE NewProficiency(Percentages(last_3_tests))

\* Where storage can fail inside calculate_and_update_adaptive_proficiency:
\* "find" (reading test_results) and "update" (writing the enrollment).
CalcFaults == {"none", "find", "update"}

\* The storage failures exercised under SpecDB.
DBFaults == {"none", "find"}

\* calculate_and_update_adaptive_proficiency: the returned value, the
\* documents its find returned (last_3_tests), the enrollments afterwards and
\* whether the update changed a document (wrote).  An exception of the find
\* is caught by the outer except (None is returned); one of the update is
\* caught inside update_enrollment_proficiency and its False result is
\* ignored.
CalculateAndUpdate(results, enrollments, s, c, fault) ==
    LET found == IF fault = "find" THEN <<>> ELSE FindLast3(results, s, c)
        level == IF fault = "find" THEN NoneV ELSE AdaptiveLevel(found)
        Result(new_proficiency) ==
            [ret |-> new_proficiency,
             raised |-> FALSE,
             last_3_tests |-> found,
             wrote |-> /\ new_proficiency /= NoneV
                       /\ fault /= "update"
                       /\ enrollments[<<s, c>>] /= NotEnrolled,
             enrollments |->
                IF new_proficiency = NoneV THEN enrollments
                ELSE update_enrollment_proficiency(enrollments, s, c,
                         new_proficiency, fault /= "update")]
    IN  Result(level)

\* "updated_at": datetime.utcnow() of a write to the pair's enrollment
\* document: the time of the write when a document was written.
SetUpdatedAt(times, s, c, wrote, now) ==
    IF wrote THEN [times EXCEPT ![<<s, c>>] = now] ELSE times

-----------------------------------------------------------------------------
(* State *)

Pairs == Students \X Courses

\* The outcome of the last operation.  status is the HTTP status of a request
\* handler (0 for a direct AtomicDB call); ret is the value returned by
\* calculate_and_update_adaptive_proficiency (proficiency_updated in a submit
\* response); raised says whether that call let an exception escape.
Outcome(op, s, c, status, ret, raised, fault, score, total, percentage) ==
    [op |-> op, student |-> s, course |-> c, status |-> status, ret |-> ret,
     raised |-> raised, fault |-> fault, score |-> score,
     total_questions |-> total, percentage |-> percentage]

NoOutcome == Outcome("none", NoneV, NoneV, 0, NoneV, FALSE, "none", 0, 0, 0)

\* The document submit_test builds (test_result_doc), without the fields no
\* operation reads back (course_name, topic, questions, the answers).
TestResultDoc(s, c, level, score, total) ==
    [student_username |-> s, course_id |-> c, proficiency_level |-> level,
     score |-> score, total_questions |-> total,
     percentage |-> Percentage(score, total)]

\* The payload of a submit request (SubmitTestRequest).
Payload(questions, student_answers) ==
    [questions |-> questions, student_answers |-> student_answers]

NoRequest == Payload(<<>>, <<>>)

\* The courses entry of a course id no document was ever inserted under.
NoCourse == "no_course"

\* The courses entry of a course whose document was deleted.
Deleted == "deleted"

\* The threads that run handlers side by side.
Procs == {"p1", "p2"}

\* The local variables of a thread that is not inside a handler.
NoLocals == [op |-> "none"]

\* The empty database, no token handed out, the clock at its origin, every
\* thread outside a handler.
\* courses maps a course id to its document's default_proficiency,
\* updated_at a pair to its enrollment document's updated_at (NoneNum
\* without a document); window holds the documents the last call of
\* calculate_and_update_adaptive_proficiency read (its last_3_tests).
Init ==
    /\ test_results = <<>>
    /\ student_enrollments = [p \in Pairs |-> NotEnrolled]
    /\ updated_at = [p \in Pairs |-> NoneNum]
    /\ window = <<>>
    /\ courses = [c \in Courses |-> NoCourse]
    /\ clock = 0
    /\ enrollment_docs = <<>>
    /\ users = <<>>
    /\ tokens = <<>>
    /\ issued = {}
    /\ request = NoRequest
    /\ response = NoOutcome
    /\ pc = [p \in Procs |-> "idle"]
    /\ locals = [p \in Procs |-> NoLocals]

-----------------------------------------------------------------------------
(* SpecDB: the AtomicDB operations called directly *)

\* (score, total_questions) of the documents inserted under SpecDB: their
\* percentages are 0, 29.99, 30, 69.99, 70 and 100.
SampleScores ==
    {<<0, 1>>, <<2999, 10000>>, <<3, 10>>, <<6999, 10000>>, <<7, 10>>, <<1, 1>>}

\* The documents insert_test_result is called with under SpecDB.
SampleDocs ==
    {TestResultDoc(s, c, "intermediate", sc[1], sc[2]) :
        s \in Students, c \in Courses, sc \in SampleScores}

\* The levels enroll_student is called with (None is its default).
EnrollLevels == {NoneV}

InsertTestResult(doc) ==
    /\ Len(test_results) < MaxResults
    /\ test_results' = insert_test_result(test_results, doc)
    /\ response' = Outcome("insert_test_result", doc.student_username,
                           doc.course_id, 0, NoneV, FALSE, "none",
                           doc.score, doc.total_questions, doc.percentage)
    /\ window' = <<>>
    /\ UNCHANGED <<student_enrollments, updated_at, request>>
    /\ UNCHANGED <<courses, clock, enrollment_docs, authvars, procvars>>

EnrollStudent(s, c, level) ==
    /\ student_enrollments' = enroll_student(student_enrollments, s, c, level)
    /\ updated_at' = SetUpdatedAt(updated_at, s, c, TRUE, clock)
    /\ response' = Outcome("enroll_student", s, c, 0, NoneV, FALSE, "none",
                           0, 0, 0)
    /\ window' = <<>>
    /\ UNCHANGED <<test_results, request>>
    /\ UNCHANGED <<courses, clock, enrollment_docs, authvars, procvars>>

Calculate(s, c, fault) ==
    \E r \in {CalculateAndUpdate(test_results, student_enrollments, s, c, fault)} :
        /\ student_enrollments' = r.enrollments
        /\ updated_at' = SetUpdatedAt(updated_at, s, c, r.wrote, clock)
        /\ window' = r.last_3_tests
        /\ response' = Outcome("calculate", s, c, 0, r.ret, r.raised, fault,
                               0, 0, 0)
        /\ UNCHANGED <<test_results, request>>
        /\ UNCHANGED <<courses, clock, enrollment_docs, authvars, procvars>>

InsertAny ==
    /\ Len(test_results) < MaxResults
    /\ \E doc \in SampleDocs : InsertTestResult(doc)

EnrollAny ==
    \E s \in Students, c \in Courses, level \in EnrollLevels :
        EnrollStudent(s, c, level)

CalculateAny ==
    \E s \in Students, c \in Courses, fault \in DBFaults :
        Calculate(s, c, fault)

NextDB == InsertAny \/ EnrollAny \/ CalculateAny

SpecDB == Init /\ [][NextDB]_vars

-----------------------------------------------------------------------------
(* Spec: the request handlers of app.py *)

\* question_number values of a request: missing, 0 and 1.
QNums == {NoneNum, 0, 1}

\* correct_answer values of a request: a choice or missing.
CorrectValues == {"A", NoneV}

QuestionRecords == [question_number : QNums, correct_answer : CorrectValues]

\* The questions lists of a request.
QuestionLists == UNION {[1..n -> QuestionRecords] : n \in 0..MaxQuestions}

\* Keys of student_answers: JSON object keys are strings.  "1" can be the
\* number of a scored question, "0" never is.
AnswerKeys == {"0", "1"}

\* Values of student_answers: the untyped dict of SubmitTestRequest accepts
\* null.
AnswerValues == {"A", "B", NoneV}

AnswerMaps == UNION {[K -> AnswerValues] : K \in SUBSET AnswerKeys}

\* The students whose requests Spec follows.
Submitters == {"s1"}

\* default_proficiency of the course a student enrolls in.
CourseDefaults == {"beginner", "intermediate"}

\* POST /student/enroll once find_course_by_id has returned the course:
\* enroll_student with the course's default level.
EnrollInCourse(s, c, default_proficiency) ==
    /\ response = NoOutcome
    /\ student_enrollments' =
            enroll_student(student_enrollments, s, c, default_proficiency)
    /\ updated_at' = SetUpdatedAt(updated_at, s, c, TRUE, clock)
    /\ response' = Outcome("enroll", s, c, 200, NoneV, FALSE, "none", 0, 0, 0)
    /\ window' = <<>>
    /\ UNCHANGED <<test_results, request>>
    /\ UNCHANGED <<courses, clock, enrollment_docs, authvars, procvars>>

\* Where storage can fail in submit_test before the document is stored: the
\* exception reaches the handler's except, which answers 500.
SubmitFaults == {"get_enrollment_proficiency", "insert_test_result"}

\* POST /student/submit-test: score, read the enrollment's level, store the
\* document, reclassify, answer 200; answer 500 with nothing stored when
\* get_enrollment_proficiency or insert_test_result raises.
SubmitTest(s, c, questions, student_answers, fault) ==
    /\ response = NoOutcome
    /\ request' = Payload(questions, student_answers)
    /\ UNCHANGED <<courses, clock, enrollment_docs, authvars, procvars>>
    /\ IF fault \in SubmitFaults
       THEN /\ response' = Outcome("submit", s, c, 500, NoneV, FALSE, fault,
                                   0, 0, 0)
            /\ window' = <<>>
            /\ UNCHANGED <<test_results, student_enrollments, updated_at>>
       ELSE
       \E score \in {Score(questions, student_answers)} :
       \E level \in {get_enrollment_proficiency(student_enrollments, s, c)} :
       \E doc \in {TestResultDoc(s, c,
                       IF level = NoneV THEN "intermediate" ELSE level,
                       score, Len(questions))} :
       \E stored \in {insert_test_result(test_results, doc)} :
       \E r \in {CalculateAndUpdate(stored, student_enrollments, s, c, fault)} :
          /\ test_results' = stored
          /\ student_enrollments' = r.enrollments
          /\ updated_at' = SetUpdatedAt(updated_at, s, c, r.wrote, clock)
          /\ window' = r.last_3_tests
          /\ response' = Outcome("submit", s, c, 200, r.ret, r.raised, fault,
                                 doc.score, doc.total_questions, doc.percentage)

\* The client receives the response; the next request can be sent.
Deliver ==
    /\ response /= NoOutcome
    /\ request' = NoRequest
    /\ response' = NoOutcome
    /\ window' = <<>>
    /\ UNCHANGED <<test_results, student_enrollments, updated_at>>
    /\ UNCHANGED <<courses, clock, enrollment_docs, authvars, procvars>>

\* A student sends an enroll request.
Enroll ==
    \E s \in Submitters, c \in Courses, d \in CourseDefaults :
        EnrollInCourse(s, c, d)

\* A student sends a submit request, with any payload, and storage fails at
\* any point or not at all.
Submit ==
    /\ response = NoOutcome
    /\ Len(test_results) < MaxSubmits
    /\ \E s \in Submitters, c \in Courses, questions \in QuestionLists,
          student_answers \in AnswerMaps,
          fault \in SubmitFaults \cup CalcFaults :
          SubmitTest(s, c, questions, student_answers, fault)

Next == Deliver \/ Enroll \/ Submit

Spec == Init /\ [][Next]_vars

-----------------------------------------------------------------------------
(* SpecFlow: the handlers of app.py that write the collections *)

\* question_number 1 and 2, both with correct answer "A".
Q1 == [question_number |-> 1, correct_answer |-> "A"]

Q2 == [question_number |-> 2, correct_answer |-> "A"]

\* The payloads of the submits followed under SpecFlow: one question answered
\* wrongly (0 percent), two questions of which one is answered correctly (50
\* percent), one question answered correctly (100 percent).
FlowPayloads ==
    {Payload(<<Q1>>, [k \in {"1"} |-> "B"]),
     Payload(<<Q1, Q2>>, [k \in {"1", "2"} |-> IF k = "1" THEN "A" ELSE "B"]),
     Payload(<<Q1>>, [k \in {"1"} |-> "A"])}

\* proficiency_level of a SetStudentProficiencyRequest or an
\* UpdateProficiencyRequest: any string.
RequestLevels == {"beginner", "expert"}

\* default_proficiency of a CourseInit: any string.
InitDefaults == {"intermediate", "expert"}

\* The payload of a request that carries a proficiency level.
LevelRequest(level) == [proficiency_level |-> level]

\* find_course_by_id returns a document.
CourseFound(c) == courses[c] /= NoCourse /\ courses[c] /= Deleted

\* set_student_proficiency without its check of the level.
ValidLevel_Any(level) == TRUE

\* The check of set_student_proficiency on the level it is given.
ValidLevel(level) == level \in Levels

\* A handler answers with a status and changes nothing.
Reject(op, s, c, status, fault) ==
    /\ response' = Outcome(op, s, c, status, NoneV, FALSE, fault, 0, 0, 0)
    /\ window' = <<>>
    /\ UNCHANGED <<test_results, student_enrollments, updated_at, courses>>

\* POST /course/init by a professor: insert_course stores a document under a
\* new course id.
InitCourse(c, default_proficiency) ==
    /\ response = NoOutcome
    /\ courses[c] = NoCourse
    /\ courses' = [courses EXCEPT ![c] = default_proficiency]
    /\ request' = LevelRequest(default_proficiency)
    /\ response' = Outcome("init_course", NoneV, c, 200, NoneV, FALSE, "none",
                           0, 0, 0)
    /\ window' = <<>>
    /\ UNCHANGED <<test_results, student_enrollments, updated_at>>
    /\ UNCHANGED <<clock, enrollment_docs, authvars, procvars>>

\* DELETE /course/{course_id} by the course's professor: 404 without a
\* document, else delete_course_by_id, which deletes the course document and
\* nothing else.
DeleteCourse(c) ==
    /\ response = NoOutcome
    /\ request' = NoRequest
    /\ UNCHANGED <<clock, enrollment_docs, authvars, procvars>>
    /\ IF ~CourseFound(c)
       THEN Reject("delete_course", NoneV, c, 404, "none")
       ELSE /\ courses' = [courses EXCEPT ![c] = Deleted]
            /\ response' = Outcome("delete_course", NoneV, c, 200, NoneV,
                                   FALSE, "none", 0, 0, 0)
            /\ window' = <<>>
            /\ UNCHANGED <<test_results, student_enrollments, updated_at>>

\* POST /student/enroll: 404 when find_course_by_id returns nothing, else
\* the enrollment with the course's default_proficiency.
EnrollByCourseId(s, c) ==
    IF CourseFound(c)
    THEN EnrollInCourse(s, c, courses[c])
    ELSE /\ response = NoOutcome
         /\ request' = NoRequest
         /\ Reject("enroll", s, c, 404, "none")
         /\ UNCHANGED <<clock, enrollment_docs, authvars, procvars>>

\* Where storage can fail in a handler that updates an enrollment.
UpdateFaults == {"none", "update"}

\* The update of a handler that has passed its checks:
\* update_enrollment_proficiency, 500 when it returns False.
UpdateOrFail(op, s, c, level, fault) ==
    IF fault = "update"
    THEN Reject(op, s, c, 500, fault)
    ELSE /\ student_enrollments' =
                update_enrollment_proficiency(student_enrollments, s, c,
                                              level, TRUE)
         /\ updated_at' = SetUpdatedAt(updated_at, s, c, TRUE, clock)
         /\ response' = Outcome(op, s, c, 200, NoneV, FALSE, fault, 0, 0, 0)
         /\ window' = <<>>
         /\ UNCHANGED <<test_results, courses>>

\* POST /professor/set-student-proficiency by the course's professor: 404
\* without the course, 400 for a student who is not enrolled, 400 for a level
\* outside the three, else the update.
SetStudentProficiency(s, c, level, fault) ==
    /\ response = NoOutcome
    /\ request' = LevelRequest(level)
    /\ UNCHANGED <<clock, enrollment_docs, authvars, procvars>>
    /\ IF ~CourseFound(c)
       THEN Reject("set_student_proficiency", s, c, 404, "none")
       ELSE IF student_enrollments[<<s, c>>] = NotEnrolled
       THEN Reject("set_student_proficiency", s, c, 400, "none")
       ELSE IF ~ValidLevel(level)
       THEN Reject("set_student_proficiency", s, c, 400, "none")
       ELSE UpdateOrFail("set_student_proficiency", s, c, level, fault)

\* POST /student/update-proficiency by the student: 403 when not enrolled,
\* else the update with the level as given.
UpdateCourseProficiency(s, c, level, fault) ==
    /\ response = NoOutcome
    /\ request' = LevelRequest(level)
    /\ UNCHANGED <<clock, enrollment_docs, authvars, procvars>>
    /\ IF student_enrollments[<<s, c>>] = NotEnrolled
       THEN Reject("update_course_proficiency", s, c, 403, "none")
       ELSE UpdateOrFail("update_course_proficiency", s, c, level, fault)

\* Time passes.
Tick ==
    /\ clock < MaxClock
    /\ clock' = clock + 1
    /\ UNCHANGED <<test_results, student_enrollments, updated_at, window,
                   courses, enrollment_docs, authvars, request, response>>
    /\ UNCHANGED procvars

\* The students who enroll and whose level is set by request.
FlowStudents == {"s1"}

\* The levels and the course default of the requests followed under
\* SpecFlow, all inside the three.
FlowLevels == {"beginner"}

FlowDefaults == {"intermediate"}

\* A professor creates a course with one of the given defaults.
CreateCourse(defaults) ==
    /\ response = NoOutcome
    /\ \E c \in Courses, d \in defaults : InitCourse(c, d)

\* A professor deletes a course.
RemoveCourse ==
    /\ response = NoOutcome
    /\ \E c \in Courses : DeleteCourse(c)

\* A student sends an enroll request with a course id.
EnrollById ==
    /\ response = NoOutcome
    /\ \E s \in FlowStudents, c \in Courses : EnrollByCourseId(s, c)

\* A professor sets a student's level to one of the given levels.
SetProficiency(levels) ==
    /\ response = NoOutcome
    /\ \E s \in FlowStudents, c \in Courses, level \in levels,
          fault \in UpdateFaults : SetStudentProficiency(s, c, level, fault)

\* A student sets the own level to one of the given levels.
UpdateProficiency(levels) ==
    /\ response = NoOutcome
    /\ \E s \in FlowStudents, c \in Courses, level \in levels,
          fault \in UpdateFaults : UpdateCourseProficiency(s, c, level, fault)

\* The students who submit without ever enrolling, and what they submit: the
\* payload of 50 percent.
OtherStudents == Students \ FlowStudents

OtherPayloads == {payload \in FlowPayloads : Len(payload.questions) = 2}

\* One of the given students submits one of the given payloads while
\* test_results holds fewer than max documents.
SubmitPayload(students, payloads, max) ==
    /\ response = NoOutcome
    /\ Len(test_results) < max
    /\ \E s \in students, c \in Courses, payload \in payloads,
          fault \in SubmitFaults \cup CalcFaults :
          SubmitTest(s, c, payload.questions, payload.student_answers, fault)

NextFlow ==
    \/ Deliver
    \/ CreateCourse(FlowDefaults)
    \/ RemoveCourse
    \/ EnrollById
    \/ SetProficiency(FlowLevels)
    \/ UpdateProficiency(FlowLevels)
    \/ SubmitPayload(FlowStudents, FlowPayloads, MaxFlowResults)
    \/ SubmitPayload(OtherStudents, OtherPayloads, MaxFlowResults)

SpecFlow == Init /\ [][NextFlow]_vars

-----------------------------------------------------------------------------
(* SpecLevels: the same handlers with any string as a level, while time
   passes *)

NextLevels ==
    \/ Deliver
    \/ Tick
    \/ CreateCourse(InitDefaults)
    \/ RemoveCourse
    \/ EnrollById
    \/ SetProficiency(RequestLevels)
    \/ UpdateProficiency(RequestLevels)
    \/ SubmitPayload(FlowStudents, FlowPayloads, MaxResults)

SpecLevels == Init /\ [][NextLevels]_vars

-----------------------------------------------------------------------------
(* SpecEnroll: the writes to student_enrollments, document by document *)

\* A document of student_enrollments, without its timestamps.
EnrollmentDoc(s, c, level) ==
    [student_username |-> s, course_id |-> c, proficiency_level |-> level]

\* The positions of the documents that match the filter
\* {"student_username": s, "course_id": c}.
Matching(docs, s, c) ==
    {i \in DOMAIN docs :
        docs[i].student_username = s /\ docs[i].course_id = c}

\* update_one that inserts whenever upsert is set, matching document or not.
update_one_Insert(docs, s, c, level, upsert) ==
    IF upsert THEN Append(docs, EnrollmentDoc(s, c, level))
    ELSE IF Matching(docs, s, c) = {} THEN docs
    ELSE LET first == CHOOSE i \in Matching(docs, s, c) :
                          \A j \in Matching(docs, s, c) : i <= j
         IN  [docs EXCEPT ![first].proficiency_level = level]

\* db.student_enrollments.update_one(filter, {"$set": ...}, upsert): the
\* first matching document gets the level; when none matches, upsert=True
\* inserts a document made of the filter and the level, and upsert=False
\* does nothing.
update_one(docs, s, c, level, upsert) ==
    IF Matching(docs, s, c) = {}
    THEN IF upsert THEN Append(docs, EnrollmentDoc(s, c, level)) ELSE docs
    ELSE LET first == CHOOSE i \in Matching(docs, s, c) :
                          \A j \in Matching(docs, s, c) : i <= j
         IN  [docs EXCEPT ![first].proficiency_level = level]

\* The levels enroll_student is called with under SpecEnroll: its default,
\* a level of the three and another string.
EnrollCallLevels == {NoneV, "beginner", "expert"}

\* The levels update_enrollment_proficiency is called with, by a handler or
\* by the classifier.
UpdateCallLevels == {"intermediate", "advanced"}

\* enroll_student(s, c, level), on the documents and on the levels.
UpsertEnrollment(s, c, level) ==
    /\ enrollment_docs' = update_one(enrollment_docs, s, c, level, TRUE)
    /\ student_enrollments' = enroll_student(student_enrollments, s, c, level)
    /\ updated_at' = SetUpdatedAt(updated_at, s, c, TRUE, clock)
    /\ request' = LevelRequest(level)
    /\ response' = Outcome("enroll_student", s, c, 0, NoneV, FALSE, "none",
                           0, 0, 0)
    /\ UNCHANGED <<test_results, window, courses, clock, authvars, procvars>>

\* update_enrollment_proficiency(s, c, level), on the documents and on the
\* levels.
UpdateEnrollment(s, c, level) ==
    /\ enrollment_docs' = update_one(enrollment_docs, s, c, level, FALSE)
    /\ student_enrollments' =
            update_enrollment_proficiency(student_enrollments, s, c, level,
                                          TRUE)
    /\ updated_at' = SetUpdatedAt(updated_at, s, c,
                          student_enrollments[<<s, c>>] /= NotEnrolled, clock)
    /\ request' = LevelRequest(level)
    /\ response' = Outcome("update_enrollment_proficiency", s, c, 0, NoneV,
                           FALSE, "none", 0, 0, 0)
    /\ UNCHANGED <<test_results, window, courses, clock, authvars, procvars>>

UpsertAny ==
    \E s \in Students, c \in Courses, level \in EnrollCallLevels :
        UpsertEnrollment(s, c, level)

UpdateAny ==
    \E s \in Students, c \in Courses, level \in UpdateCallLevels :
        UpdateEnrollment(s, c, level)

NextEnroll == UpsertAny \/ UpdateAny

SpecEnroll == Init /\ [][NextEnroll]_vars

-----------------------------------------------------------------------------
(* SpecAuth: register, login, logout and a protected endpoint *)

Usernames == {"u1", "u2"}

Passwords == {"pw1", "pw2"}

\* hash_password: the stored value is not the password itself.
hash_password(password) == <<"bcrypt", password>>

\* verify_password(plain_password, hashed_password).
verify_password(plain_password, hashed_password) ==
    hashed_password = hash_password(plain_password)

\* jwt.encode of {"username": username, "jti": jti}.
Jwt(username, jti) == [username |-> username, jti |-> jti]

\* A bearer token that the server never signed.
Forged == Jwt("u1", 0)

\* The absence of a token in a request or a response.
NoToken == Jwt(NoneV, 0)

\* jwt.decode succeeds on the tokens the server has signed.
Decodes(token) == token \in issued

\* find_user: the positions of the user documents with the username.
FindUser(username) == {i \in DOMAIN users : users[i].username = username}

\* find_token_by_jti: the positions of the token documents with the jti.
FindTokenByJti(jti) == {i \in DOMAIN tokens : tokens[i].jti = jti}

\* tokens.find_one({"username": username}).
FindTokenByUsername(username) ==
    {i \in DOMAIN tokens : tokens[i].username = username}

\* delete_token_by_jti that deletes nothing.
delete_token_by_jti_Keep(docs, jti) == docs

\* delete_token_by_jti: delete_one removes the first document with the jti.
delete_token_by_jti(docs, jti) ==
    IF \A i \in DOMAIN docs : docs[i].jti /= jti THEN docs
    ELSE LET first == CHOOSE i \in DOMAIN docs :
                          /\ docs[i].jti = jti
                          /\ \A j \in DOMAIN docs : docs[j].jti = jti => i <= j
         IN  [k \in 1..(Len(docs) - 1) |->
                 IF k < first THEN docs[k] ELSE docs[k + 1]]

\* The payload of a request to an auth endpoint: credentials or a bearer
\* token.
AuthRequest(username, password, token) ==
    [username |-> username, password |-> password, token |-> token]

\* The response of an auth endpoint.
AuthOutcome(op, status, access_token) ==
    [op |-> op, status |-> status, access_token |-> access_token]

\* What the auth handlers leave alone.
AuthFrame ==
    UNCHANGED <<test_results, student_enrollments, updated_at, window,
                courses, clock, enrollment_docs, procvars>>

\* POST /auth/register: create_user answers 400 for a username that has a
\* document, else inserts the user with the hashed password (201).
Register(username, password) ==
    /\ request' = AuthRequest(username, password, NoToken)
    /\ AuthFrame
    /\ UNCHANGED <<tokens, issued>>
    /\ IF FindUser(username) /= {}
       THEN /\ response' = AuthOutcome("register", 400, NoToken)
            /\ UNCHANGED users
       ELSE /\ users' = Append(users, [username |-> username,
                                       password |-> hash_password(password)])
            /\ response' = AuthOutcome("register", 201, NoToken)

\* authenticate_user: the user's document when the password verifies.
Authenticates(username, password) ==
    /\ FindUser(username) /= {}
    /\ LET user == users[CHOOSE i \in FindUser(username) :
                             \A j \in FindUser(username) : i <= j]
       IN  verify_password(password, user.password)

\* POST /auth/login: 401 when authenticate_user fails; create_access_token
\* answers 400 when the username has a token document, else signs a token
\* with a new jti, stores its document and returns it (200).
Login(username, password) ==
    /\ request' = AuthRequest(username, password, NoToken)
    /\ AuthFrame
    /\ UNCHANGED users
    /\ IF ~Authenticates(username, password)
       THEN /\ response' = AuthOutcome("login", 401, NoToken)
            /\ UNCHANGED <<tokens, issued>>
       ELSE IF FindTokenByUsername(username) /= {}
       THEN /\ response' = AuthOutcome("login", 400, NoToken)
            /\ UNCHANGED <<tokens, issued>>
       ELSE \E jti \in {Cardinality(issued) + 1} :
            /\ tokens' = Append(tokens, [jti |-> jti, username |-> username])
            /\ issued' = issued \cup {Jwt(username, jti)}
            /\ response' = AuthOutcome("login", 200, Jwt(username, jti))

\* POST /auth/logout: logout_token returns silently for a token that does
\* not decode, answers 400 when the jti has no document, else deletes the
\* document; the handler then answers 200.
Logout(token) ==
    /\ request' = AuthRequest(NoneV, NoneV, token)
    /\ AuthFrame
    /\ UNCHANGED <<users, issued>>
    /\ IF ~Decodes(token)
       THEN /\ response' = AuthOutcome("logout", 200, NoToken)
            /\ UNCHANGED tokens
       ELSE IF FindTokenByJti(token.jti) = {}
       THEN /\ response' = AuthOutcome("logout", 400, NoToken)
            /\ UNCHANGED tokens
       ELSE /\ tokens' = delete_token_by_jti(tokens, token.jti)
            /\ response' = AuthOutcome("logout", 200, NoToken)

\* get_current_user: the token decodes, its jti has a document and its
\* username has a user document.
CurrentUser(token) ==
    /\ Decodes(token)
    /\ FindTokenByJti(token.jti) /= {}
    /\ FindUser(token.username) /= {}

\* GET /auth/me, a protected endpoint: 401 unless get_current_user returns
\* a user.
Me(token) ==
    /\ request' = AuthRequest(NoneV, NoneV, token)
    /\ AuthFrame
    /\ UNCHANGED <<users, tokens, issued>>
    /\ response' = AuthOutcome("me", IF CurrentUser(token) THEN 200 ELSE 401,
                               NoToken)

RegisterAny == \E u \in Usernames, pw \in Passwords : Register(u, pw)

LoginAny ==
    /\ Cardinality(issued) < MaxLogins
    /\ \E u \in Usernames, pw \in Passwords : Login(u, pw)

LogoutAny == \E token \in issued \cup {Forged} : Logout(token)

MeAny == \E token \in issued \cup {Forged} : Me(token)

NextAuth == RegisterAny \/ LoginAny \/ LogoutAny \/ MeAny

SpecAuth == Init /\ [][NextAuth]_vars

-----------------------------------------------------------------------------
(* SpecSignup and SpecSession: register and login storage call by storage
   call *)

\* register and login are plain defs too: two of them run side by side on
\* pool threads and interleave at their storage calls.

\* Whether users has its unique index on username.  init_db.ensure_indexes
\* would create it, but startup_event, a plain def, calls the coroutine
\* function ensure_db_indexes without awaiting it: the coroutine object is
\* dropped, its body never runs and create_index is never called.
UsersUniqueIndex == FALSE

\* insert_user: insert_one appends the document; with a unique index on
\* username it raises DuplicateKeyError for a username that has a document.
insert_user(docs, user_doc, unique) ==
    IF unique /\ \E i \in DOMAIN docs : docs[i].username = user_doc.username
    THEN [docs |-> docs, raised |-> TRUE]
    ELSE [docs |-> Append(docs, user_doc), raised |-> FALSE]

\* insert_token: insert_one appends the document (its jti is new).
insert_token(docs, token_doc) == Append(docs, token_doc)

\* The local variables of a thread inside register or login, and the status
\* it answers with (0 while it has not answered).
AuthLocals(op, username, password, jti, status) ==
    [op |-> op, username |-> username, password |-> password, jti |-> jti,
     status |-> status]

\* What the steps of register and login leave alone.
ThreadFrame ==
    UNCHANGED <<test_results, student_enrollments, updated_at, window,
                courses, clock, enrollment_docs, request, response>>

\* A thread enters register, and create_user calls find_user: 400 for a
\* username that has a document.
StartRegister(p, username, password) ==
    /\ pc[p] \in {"idle", "done"}
    /\ IF FindUser(username) /= {}
       THEN /\ pc' = [pc EXCEPT ![p] = "done"]
            /\ locals' = [locals EXCEPT ![p] =
                    AuthLocals("register", username, password, 0, 400)]
       ELSE /\ pc' = [pc EXCEPT ![p] = "insert_user"]
            /\ locals' = [locals EXCEPT ![p] =
                    AuthLocals("register", username, password, 0, 0)]
    /\ UNCHANGED authvars
    /\ ThreadFrame

\* create_user calls insert_user with the hashed password: 201, or 500 from
\* register's except when insert_one raises.
InsertUserStep(p) ==
    /\ pc[p] = "insert_user"
    /\ \E r \in {insert_user(users,
                      [username |-> locals[p].username,
                       password |-> hash_password(locals[p].password)],
                      UsersUniqueIndex)} :
          /\ users' = r.docs
          /\ locals' = [locals EXCEPT ![p].status =
                                         IF r.raised THEN 500 ELSE 201]
    /\ pc' = [pc EXCEPT ![p] = "done"]
    /\ UNCHANGED <<tokens, issued>>
    /\ ThreadFrame

\* A thread enters login, and authenticate_user reads the user: 401 when it
\* fails.
StartLogin(p, username, password) ==
    /\ pc[p] \in {"idle", "done"}
    /\ IF ~Authenticates(username, password)
       THEN /\ pc' = [pc EXCEPT ![p] = "done"]
            /\ locals' = [locals EXCEPT ![p] =
                    AuthLocals("login", username, password, 0, 401)]
       ELSE /\ pc' = [pc EXCEPT ![p] = "find_token"]
            /\ locals' = [locals EXCEPT ![p] =
                    AuthLocals("login", username, password, 0, 0)]
    /\ UNCHANGED authvars
    /\ ThreadFrame

\* create_access_token looks for a token document of the username: 400
\* when there is one, else it signs a token with a new jti.
CheckTokenStep(p) ==
    /\ pc[p] = "find_token"
    /\ IF FindTokenByUsername(locals[p].username) /= {}
       THEN /\ pc' = [pc EXCEPT ![p] = "done"]
            /\ locals' = [locals EXCEPT ![p].status = 400]
            /\ UNCHANGED issued
       ELSE \E jti \in {Cardinality(issued) + 1} :
            /\ pc' = [pc EXCEPT ![p] = "insert_token"]
            /\ locals' = [locals EXCEPT ![p].jti = jti]
            /\ issued' = issued \cup {Jwt(locals[p].username, jti)}
    /\ UNCHANGED <<users, tokens>>
    /\ ThreadFrame

\* create_access_token stores the token document and login answers 200
\* with the token.
InsertTokenStep(p) ==
    /\ pc[p] = "insert_token"
    /\ tokens' = insert_token(tokens, [jti |-> locals[p].jti,
                                       username |-> locals[p].username])
    /\ pc' = [pc EXCEPT ![p] = "done"]
    /\ locals' = [locals EXCEPT ![p].status = 200]
    /\ UNCHANGED <<users, issued>>
    /\ ThreadFrame

RegisterBegin ==
    \E p \in Procs, u \in Usernames, pw \in Passwords :
        StartRegister(p, u, pw)

RegisterInsert == \E p \in Procs : InsertUserStep(p)

NextSignup == RegisterBegin \/ RegisterInsert

SpecSignup == Init /\ [][NextSignup]_vars

\* The password users register with under SpecSession.
SessionPasswords == {"pw1"}

\* A user registers while no thread is inside login.
RegisterUser ==
    /\ \A p \in Procs : pc[p] \in {"idle", "done"}
    /\ \E u \in Usernames, pw \in SessionPasswords : Register(u, pw)

LoginBegin ==
    /\ Cardinality(issued) < MaxLogins
    /\ \E p \in Procs, u \in Usernames, pw \in Passwords :
          StartLogin(p, u, pw)

LoginCheck ==
    /\ Cardinality(issued) < MaxLogins
    /\ \E p \in Procs : CheckTokenStep(p)

LoginInsert == \E p \in Procs : InsertTokenStep(p)

NextSession ==
    \/ RegisterUser
    \/ LoginBegin
    \/ LoginCheck
    \/ LoginInsert
    \/ LogoutAny

SpecSession == Init /\ [][NextSession]_vars

-----------------------------------------------------------------------------
(* SpecRace and SpecCrash: submit_test storage call by storage call *)

\* submit_test is a plain def, which FastAPI runs on a thread of its pool:
\* two submits run side by side and interleave at their storage calls
\* (get_enrollment_proficiency, insert_test_result, the find and the
\* update_one of calculate_and_update_adaptive_proficiency).

\* The payloads of the submits that run side by side: 0 and 100 percent.
RacePayloads == {payload \in FlowPayloads : Len(payload.questions) = 1}

\* The local variables of a thread inside submit_test: the document it
\* built and the label its classifier call computed.
SubmitLocals(doc, new_proficiency) ==
    [op |-> "submit", doc |-> doc, new_proficiency |-> new_proficiency]

\* What the steps of a submit leave alone.
SubmitFrame ==
    UNCHANGED <<courses, clock, enrollment_docs, authvars, request, response>>

\* A thread enters submit_test: it scores the answers, reads the level of
\* the enrollment and builds test_result_doc.
StartSubmit(p, s, c, questions, student_answers) ==
    /\ pc[p] \in {"idle", "done"}
    /\ \E level \in {get_enrollment_proficiency(student_enrollments, s, c)} :
       \E doc \in {TestResultDoc(s, c,
                       IF level = NoneV THEN "intermediate" ELSE level,
                       Score(questions, student_answers), Len(questions))} :
          /\ pc' = [pc EXCEPT ![p] = "insert_test_result"]
          /\ locals' = [locals EXCEPT ![p] = SubmitLocals(doc, NoneV)]
    /\ UNCHANGED <<test_results, student_enrollments, updated_at, window>>
    /\ SubmitFrame

\* insert_test_result(test_result_doc).
InsertStep(p) ==
    /\ pc[p] = "insert_test_result"
    /\ test_results' = insert_test_result(test_results, locals[p].doc)
    /\ pc' = [pc EXCEPT ![p] = "find"]
    /\ UNCHANGED <<student_enrollments, updated_at, window, locals>>
    /\ SubmitFrame

\* The find of calculate_and_update_adaptive_proficiency and the label of
\* what it returned; with fewer than 3 documents the call returns None and
\* the handler answers.
FindStep(p) ==
    /\ pc[p] = "find"
    /\ \E found \in {FindLast3(test_results, locals[p].doc.student_username,
                                locals[p].doc.course_id)} :
       \E new_proficiency \in {AdaptiveLevel(found)} :
          /\ window' = found
          /\ locals' = [locals EXCEPT ![p].new_proficiency = new_proficiency]
          /\ pc' = [pc EXCEPT ![p] = IF new_proficiency = NoneV
                                     THEN "done"
                                     ELSE "update_enrollment_proficiency"]
    /\ UNCHANGED <<test_results, student_enrollments, updated_at>>
    /\ SubmitFrame

\* update_enrollment_proficiency with the label; the handler then answers
\* with proficiency_updated = the label.
UpdateStep(p) ==
    /\ pc[p] = "update_enrollment_proficiency"
    /\ \E s \in {locals[p].doc.student_username} :
       \E c \in {locals[p].doc.course_id} :
          /\ student_enrollments' =
                  update_enrollment_proficiency(student_enrollments, s, c,
                      locals[p].new_proficiency, TRUE)
          /\ updated_at' = SetUpdatedAt(updated_at, s, c,
                  student_enrollments[<<s, c>>] /= NotEnrolled, clock)
    /\ pc' = [pc EXCEPT ![p] = "done"]
    /\ UNCHANGED <<test_results, window, locals>>
    /\ SubmitFrame

\* A thread dies after it has stored its document and before it has
\* updated the enrollment: it takes no further step and no request.
CrashStep(p) ==
    /\ pc[p] \in {"find", "update_enrollment_proficiency"}
    /\ pc' = [pc EXCEPT ![p] = "crashed"]
    /\ UNCHANGED <<test_results, student_enrollments, updated_at, window,
                   locals>>
    /\ SubmitFrame

\* The documents stored and about to be stored.
Pending ==
    Len(test_results)
        + Cardinality({p \in Procs : pc[p] = "insert_test_result"})

\* A thread is inside submit_test.
InFlight(p) ==
    pc[p] \in {"insert_test_result", "find", "update_enrollment_proficiency"}

\* One of the given threads takes a submit request of an enrolling student.
BeginSubmit(procs) ==
    /\ Pending < MaxRaceResults
    /\ \E p \in procs, s \in FlowStudents, c \in Courses,
          payload \in RacePayloads :
          StartSubmit(p, s, c, payload.questions, payload.student_answers)

StoreResult(procs) == \E p \in procs : InsertStep(p)

ReadLast3(procs) == \E p \in procs : FindStep(p)

WriteLevel(procs) == \E p \in procs : UpdateStep(p)

Die(procs) == \E p \in procs : CrashStep(p)

\* A submit request arrives while no thread is inside submit_test.
BeginAlone(procs) ==
    /\ \A q \in Procs : ~InFlight(q)
    /\ BeginSubmit(procs)

\* Two threads, no crash.
NextRace ==
    \/ Deliver
    \/ Enroll
    \/ BeginSubmit(Procs)
    \/ StoreResult(Procs)
    \/ ReadLast3(Procs)
    \/ WriteLevel(Procs)

SpecRace == Init /\ [][NextRace]_vars

\* Submits one after the other, each on either thread, which can die
\* between its insert and its update.
NextCrash ==
    \/ Deliver
    \/ Enroll
    \/ BeginAlone(Procs)
    \/ StoreResult(Procs)
    \/ ReadLast3(Procs)
    \/ WriteLevel(Procs)
    \/ Die(Procs)

SpecCrash == Init /\ [][NextCrash]_vars

-----------------------------------------------------------------------------
(* Properties of the classifier, checked under SpecDB *)

\* The last operation was calculate_and_update_adaptive_proficiency and its
\* find returned the stored documents.
CalcRead == response.op = "calculate" /\ response.fault /= "find"

\* Positions in test_results of the documents of the pair the last operation
\* was about.
PairDocs ==
    {i \in DOMAIN test_results :
        /\ test_results[i].student_username = response.student
        /\ test_results[i].course_id = response.course}

\* The pair's WindowSize most recently inserted documents.
Recent == {i \in PairDocs : Cardinality({j \in PairDocs : j > i}) < WindowSize}

Pct(i) == test_results[i].percentage

Low == {i \in Recent : Pct(i) < Thirty}

Mid == {i \in Recent : Thirty <= Pct(i) /\ Pct(i) < Seventy}

High == {i \in Recent : Pct(i) >= Seventy}

FullWindow == Cardinality(Recent) = WindowSize

\* C1: a call that reads a window of exactly 3 stored percentages, all below
\* 30, returns "beginner".
C1_AllBelow30Beginner ==
    (CalcRead /\ FullWindow /\ Cardinality(Low) = 3)
        => response.ret = "beginner"

\* Such a call happened, on a window that holds 29.99.
C1_Witness ==
    /\ CalcRead /\ FullWindow /\ Cardinality(Low) = 3
    /\ \E i \in Recent : Pct(i) = Thirty - 1
    /\ response.ret = "beginner"

\* C2: a call that reads a window of exactly 3 stored percentages, all at
\* least 70 (70 included), returns "advanced".
C2_AllAtLeast70Advanced ==
    (CalcRead /\ FullWindow /\ Cardinality(High) = 3)
        => response.ret = "advanced"

\* Such a call happened, on a window that holds exactly 70.
C2_Witness ==
    /\ CalcRead /\ FullWindow /\ Cardinality(High) = 3
    /\ \E i \in Recent : Pct(i) = Seventy
    /\ response.ret = "advanced"

\* C3: a call that reads a window of 3 percentages with at least 2 of them
\* in [30, 70) returns "intermediate", whatever the third is.
C3_TwoMidIntermediate ==
    (CalcRead /\ FullWindow /\ Cardinality(Mid) >= 2)
        => response.ret = "intermediate"

\* Such a call happened on a window of two 30s and a value below 30.
C3_Witness ==
    /\ CalcRead /\ FullWindow /\ response.ret = "intermediate"
    /\ Cardinality({i \in Mid : Pct(i) = Thirty}) = 2
    /\ Cardinality(Low) = 1

\* C4: a call that reads a window with one value below 30, one in [30, 70)
\* and one at least 70 returns "intermediate".
C4_OneEachIntermediate ==
    (/\ CalcRead /\ FullWindow
     /\ Cardinality(Low) = 1 /\ Cardinality(Mid) = 1 /\ Cardinality(High) = 1)
        => response.ret = "intermediate"

\* Such a call happened.
C4_Witness ==
    /\ CalcRead /\ FullWindow /\ response.ret = "intermediate"
    /\ Cardinality(Low) = 1 /\ Cardinality(Mid) = 1 /\ Cardinality(High) = 1

\* The six rules of the specification, first match wins, on the bucket
\* counts.
SixRules(low, mid, high) ==
    IF low = 3 THEN "beginner"
    ELSE IF high = 3 THEN "advanced"
    ELSE IF mid >= 2 THEN "intermediate"
    ELSE IF high >= 2 THEN "advanced"
    ELSE IF low >= 2 THEN "beginner"
    ELSE "intermediate"

\* C5: the label of a window of 3 percentages is the result of the six-rule
\* priority list; a bucket holding at least 2 of the 3 values decides the
\* label (2 high and 1 low is "advanced", 2 low and 1 high is "beginner").
C5_PriorityListAndMajority ==
    (CalcRead /\ FullWindow) =>
        /\ response.ret =
              SixRules(Cardinality(Low), Cardinality(Mid), Cardinality(High))
        /\ Cardinality(Low) >= 2 => response.ret = "beginner"
        /\ Cardinality(Mid) >= 2 => response.ret = "intermediate"
        /\ Cardinality(High) >= 2 => response.ret = "advanced"

\* A call on 2 values at least 70 and 1 below 30 returned "advanced".
C5_Witness ==
    /\ CalcRead /\ FullWindow /\ response.ret = "advanced"
    /\ Cardinality(High) = 2 /\ Cardinality(Low) = 1

\* The permutations of the 3 positions of a window.
Perms3 == {f \in [1..3 -> 1..3] : \A i, j \in 1..3 : f[i] = f[j] => i = j}

\* C6: the label returned for a window of 3 percentages is the label of
\* every permutation of its values.
C6_OrderIndependent ==
    (CalcRead /\ FullWindow) =>
        LET w == Percentages(FindLast3(test_results, response.student,
                                       response.course))
        IN  \A f \in Perms3 :
               NewProficiency([i \in 1..3 |-> w[f[i]]]) = response.ret

\* A call happened on a window of three values from different buckets, whose
\* six orders are six different sequences.
C6_Witness ==
    /\ CalcRead /\ FullWindow /\ response.ret \in Levels
    /\ Cardinality({Pct(i) : i \in Recent}) = 3
    /\ Cardinality(Low) = 2

\* C7: a call for a pair with fewer than 3 test results returns None and
\* lets no exception escape.
C7_FewerThan3NoDecision ==
    (response.op = "calculate" /\ Cardinality(PairDocs) < 3)
        => (response.ret = NoneV /\ ~response.raised)

\* A call happened for a pair with exactly 2 results, both at least 70,
\* while another pair has a result too.
C7_Witness ==
    /\ response.op = "calculate" /\ response.fault = "none"
    /\ Cardinality(PairDocs) = 2
    /\ \A i \in PairDocs : Pct(i) >= Seventy
    /\ Len(test_results) = 3
    /\ response.ret = NoneV

\* C8: a value returned by the classifier (proficiency_updated of a submit
\* response) that is not None is one of "beginner", "intermediate",
\* "advanced".
C8_LevelInEnum == response.ret /= NoneV => response.ret \in Levels

\* A call returned the fallback label of a 1-1-1 window.
C8_Witness ==
    /\ CalcRead /\ response.ret = "intermediate"
    /\ Cardinality(Low) = 1 /\ Cardinality(Mid) = 1 /\ Cardinality(High) = 1
    /\ student_enrollments[<<response.student, response.course>>]
          = "intermediate"

-----------------------------------------------------------------------------
(* Properties of submit_test, checked under Spec *)

\* The last operation was a submit that storage let through to the insert.
Submitted == response.op = "submit" /\ response.fault \notin SubmitFaults

\* The newest document of test_results.
LastDoc == test_results[Len(test_results)]

\* C9: a submit whose questions list is empty is answered 200 with
\* percentage 0 and total_questions 0, and the document it stores holds
\* percentage 0 and total_questions 0, whatever the answers.
C9_EmptyQuestionsPercentageZero ==
    (Submitted /\ request.questions = <<>>) =>
        /\ response.status = 200
        /\ response.percentage = 0 /\ response.total_questions = 0
        /\ Len(test_results) > 0
        /\ LastDoc.percentage = 0 /\ LastDoc.total_questions = 0

\* Such a submit happened with a non-empty answers mapping that scored.
C9_Witness ==
    /\ Submitted /\ request.questions = <<>>
    /\ DOMAIN request.student_answers /= {}
    /\ response.score > 0
    /\ response.status = 200 /\ response.percentage = 0

\* The questions of a payload that have a recorded correct answer which the
\* student's answer under the question's number equals.
MatchedQuestions(payload) ==
    {i \in DOMAIN payload.questions :
        LET q == payload.questions[i]
        IN  /\ q.correct_answer /= NoneV
            /\ q.question_number /= NoneNum
            /\ ToStr(q.question_number) \in DOMAIN payload.student_answers
            /\ payload.student_answers[ToStr(q.question_number)]
                  = q.correct_answer}

\* C10: the score of a submit is the number of questions with a recorded
\* correct answer that the student's answer under that question's number
\* equals, and total_questions is the length of the questions list.
C10_ScoreCountsMatchedQuestions ==
    (Submitted /\ response.status = 200) =>
        /\ response.score = Cardinality(MatchedQuestions(request))
        /\ response.total_questions = Len(request.questions)

-----------------------------------------------------------------------------
(* Properties of the submit flow, checked under SpecFlow *)

\* The pair the last operation was about.
ThePair == <<response.student, response.course>>

\* The documents of that pair, oldest first.
PairResults ==
    SelectSeq(test_results,
              LAMBDA d : /\ d.student_username = response.student
                         /\ d.course_id = response.course)

\* The bucket of a percentage.
Bucket(p) ==
    IF p < Thirty THEN "low" ELSE IF p < Seventy THEN "mid" ELSE "high"

\* The six rules on a sequence of three documents.
Label3(docs) ==
    SixRules(Cardinality({i \in 1..3 : Bucket(docs[i].percentage) = "low"}),
             Cardinality({i \in 1..3 : Bucket(docs[i].percentage) = "mid"}),
             Cardinality({i \in 1..3 : Bucket(docs[i].percentage) = "high"}))

\* The last operation was a submit, answered 200 without a storage failure.
SubmitDone ==
    response.op = "submit" /\ response.status = 200 /\ response.fault = "none"

\* The last operation replayed the pair's 3rd submission: it stored the
\* pair's 4th document, which repeats the score and total of the 3rd, and
\* when it arrived the enrollment held the label of the first three results
\* (the level the submit records in its document), the level "after the
\* first time".
Replayed3rd ==
    /\ SubmitDone
    /\ Len(PairResults) = 4
    /\ PairResults[4].score = PairResults[3].score
    /\ PairResults[4].total_questions = PairResults[3].total_questions
    /\ student_enrollments[ThePair] /= NotEnrolled
    /\ PairResults[4].proficiency_level = Label3(PairResults)

SubmitStep ==
    /\ response = NoOutcome
    /\ response'.op = "submit" /\ response'.status = 200

\* C12: the test-result log is append-only.  Every step keeps the stored
\* documents, with their fields, at their positions (created_at); a submit
\* answered 200 adds exactly one document at the end and no other step adds
\* any, whether it is an enroll, a proficiency update or a course deletion.
C12_AppendOnly ==
    [][/\ Len(test_results') >= Len(test_results)
       /\ SubSeq(test_results', 1, Len(test_results)) = test_results
       /\ SubmitStep => Len(test_results') = Len(test_results) + 1
       /\ ~SubmitStep => test_results' = test_results]_vars

\* A course was deleted after results were stored and the level of their
\* pair was set by request, and the results are there.
C12_Witness ==
    /\ response.op = "delete_course" /\ response.status = 200
    /\ Len(test_results) >= 3
    /\ \E i \in DOMAIN test_results :
          /\ test_results[i].proficiency_level = "beginner"
          /\ test_results[i].percentage = 10000

\* C13: the pair of every stored TestResult has an enrollment document; in
\* particular the submit of a student who is not enrolled stores nothing.
C13_ResultsHaveEnrollment ==
    \A i \in DOMAIN test_results :
        student_enrollments[<<test_results[i].student_username,
                              test_results[i].course_id>>] /= NotEnrolled

\* The last operation was a submit during which a storage call failed: the
\* read of the enrollment, the insert, the find of the last 3 results, or
\* the update of the enrollment (attempted when a label was computed).
StorageFailed ==
    /\ response.op = "submit"
    /\ \/ response.fault \in SubmitFaults \cup {"find"}
       \/ response.fault = "update" /\ response.ret /= NoneV

\* C16: a submit during which a storage call failed is answered with an
\* error status, never with the 200 of a success.
C16_StorageFailureIsError == StorageFailed => response.status >= 400

\* The last operation was a submit whose classifier call read test_results.
SubmitRead ==
    response.op = "submit" /\ response.status = 200 /\ response.fault /= "find"

\* C20: the window the classifier reads in a submit is exactly the 3 most
\* recently inserted results of the submit's pair (all of them while the
\* pair has fewer than 3), newest first, and its first element is the
\* result this submit has just inserted.
C20_WindowIsNewest3 ==
    SubmitRead =>
        LET n == Len(PairResults)
            k == IF n < 3 THEN n ELSE 3
        IN  /\ Len(window) = k
            /\ \A i \in 1..k : window[i] = PairResults[n - i + 1]
            /\ window[1] = test_results[Len(test_results)]
            /\ window[1].student_username = response.student
            /\ window[1].course_id = response.course

\* A submit read a window of 3 while the other student's result lay between
\* the pair's results, and the three results differ.
C20_Witness ==
    /\ SubmitRead
    /\ Len(test_results) = 4 /\ Len(PairResults) = 3
    /\ test_results[3].student_username /= response.student
    /\ Len(window) = 3
    /\ window[3] = test_results[1]
    /\ window[1].percentage /= window[2].percentage
    /\ window[2].percentage /= window[3].percentage
    /\ window[1].percentage /= window[3].percentage

-----------------------------------------------------------------------------
(* Properties of the stored level, checked under SpecLevels *)

\* C14: the proficiency_level of every enrollment document is None or one
\* of "beginner", "intermediate", "advanced", whichever handler wrote it.
C14_StoredLevelInEnum ==
    \A p \in Pairs :
        student_enrollments[p] \in Levels \cup {NoneV, NotEnrolled}

\* A step is a professor override with a level outside the three.
InvalidOverrideStep ==
    /\ response = NoOutcome
    /\ response'.op = "set_student_proficiency"
    /\ request'.proficiency_level \notin Levels

\* C15: a professor override with a level outside "beginner",
\* "intermediate", "advanced" is answered with an error status and leaves
\* the proficiency_level and the updated_at of every enrollment as they
\* were.
C15_InvalidOverrideRejected ==
    [][InvalidOverrideStep =>
          /\ response'.status >= 400
          /\ student_enrollments' = student_enrollments
          /\ updated_at' = updated_at]_vars

\* Such an override was answered 400 for an enrolled student of an existing
\* course whose level was last written before the clock moved.
C15_Witness ==
    /\ response.op = "set_student_proficiency"
    /\ request.proficiency_level = "expert"
    /\ response.status = 400
    /\ CourseFound(response.course)
    /\ student_enrollments[ThePair] = "beginner"
    /\ updated_at[ThePair] < clock

-----------------------------------------------------------------------------
(* Properties of enrollment, checked under SpecEnroll *)

\* The documents of a pair in student_enrollments.
DocsOf(p) == Matching(enrollment_docs, p[1], p[2])

\* C17: enrollment has upsert semantics.  A pair that was enrolled has
\* exactly one enrollment document and a pair that was not has none,
\* whatever the sequence of enroll_student calls and level updates; after
\* an enroll_student call the pair's document holds the level that call
\* passed, whatever level it held before.
C17_UpsertOneDocLastLevel ==
    /\ \A p \in Pairs :
          Cardinality(DocsOf(p)) =
              IF student_enrollments[p] = NotEnrolled THEN 0 ELSE 1
    /\ response.op = "enroll_student" =>
          \A i \in DocsOf(ThePair) :
              enrollment_docs[i].proficiency_level = request.proficiency_level

\* An enroll_student call with level None was made for the pair whose
\* document is older than the other pair's, hence for a pair that had a
\* document, and that document holds None.
C17_Witness ==
    /\ response.op = "enroll_student"
    /\ request.proficiency_level = NoneV
    /\ Len(enrollment_docs) = 2
    /\ DocsOf(ThePair) = {1}
    /\ enrollment_docs[1].proficiency_level = NoneV
    /\ enrollment_docs[2].proficiency_level = "advanced"

-----------------------------------------------------------------------------
(* Properties of the sessions, checked under SpecAuth *)

\* Every token a client can present.
AllTokens == [username : Usernames, jti : 0..(MaxLogins + 1)]

\* The last operation was a logout with the token, answered 200.
LoggedOut(token) ==
    /\ response.op = "logout" /\ response.status = 200
    /\ request.token = token

\* The last operation was a request to the protected endpoint with the
\* token.
Presented(token) == response.op = "me" /\ request.token = token

\* C18: once a logout with a token was answered 200, every later request
\* that presents that token to a protected endpoint is answered 401,
\* whatever happens in between (a jti is never signed twice).
C18_LoggedOutTokenRejected ==
    \A token \in AllTokens :
        [](LoggedOut(token) => [](Presented(token) => response.status = 401))

\* A signed token without a document, which only a logout removes, was
\* presented and answered 401 while its user holds a newer session.
C18_Witness ==
    /\ response.op = "me" /\ response.status = 401
    /\ request.token \in issued
    /\ FindTokenByJti(request.token.jti) = {}
    /\ FindTokenByUsername(request.token.username) /= {}

\* C19: a login with the username and the password of a registered user is
\* answered 200 with an access token.
C19_LoginSucceeds ==
    (/\ response.op = "login"
     /\ Authenticates(request.username, request.password))
        => /\ response.status = 200
           /\ response.access_token \in issued

-----------------------------------------------------------------------------
(* Frame of a submit, checked under SpecFlow *)

\* The classifier's answer on the pair's own documents: None for fewer than
\* 3, else the six rules on the pair's 3 newest.
OwnLabel ==
    LET n == Len(PairResults)
    IN  IF n < 3 THEN NoneV
        ELSE Label3([i \in 1..3 |-> PairResults[n - i + 1]])

-----------------------------------------------------------------------------
(* Submits below the window size, checked under SpecLevels *)

\* C22: a submit that leaves its pair with fewer than 3 results (the pair's
\* first or second submission) returns proficiency_updated = None and
\* leaves the proficiency_level and the updated_at of the pair's enrollment
\* as they were.
C22_FewerThan3LeavesEnrollment ==
    [][(SubmitStep /\ Len(PairResults') < 3) =>
          /\ response'.ret = NoneV
          /\ student_enrollments'[ThePair'] = student_enrollments[ThePair']
          /\ updated_at'[ThePair'] = updated_at[ThePair']]_vars

\* A second submit of 100 after a first of 100 returned None for an
\* enrolled student whose level "beginner" was written before the clock
\* moved.
C22_Witness ==
    /\ SubmitDone
    /\ Len(PairResults) = 2
    /\ PairResults[1].percentage = 10000 /\ PairResults[2].percentage = 10000
    /\ response.ret = NoneV
    /\ student_enrollments[ThePair] = "beginner"
    /\ updated_at[ThePair] /= NoneNum /\ updated_at[ThePair] < clock

-----------------------------------------------------------------------------
(* The level a submit reports, checked under SpecFlow *)

\* C23: when a submit returns a proficiency_updated that is not None, the
\* enrollment of its pair holds that level right after the submit (no other
\* handler has run in between); a level is never reported when the update
\* of the enrollment did not take effect, for want of an enrollment
\* document or because the update failed.
C23_ReportedLevelIsStored ==
    (response.op = "submit" /\ response.ret /= NoneV)
        => student_enrollments[ThePair] = response.ret

-----------------------------------------------------------------------------
(* Override against classification, checked under SpecFlow *)

\* A step is a professor override answered 200.
OverrideStep ==
    /\ response = NoOutcome
    /\ response'.op = "set_student_proficiency" /\ response'.status = 200

\* A step is a submit without a storage failure that leaves its enrolled
\* pair with at least 3 results.
QualifyingSubmitStep ==
    /\ SubmitStep /\ response'.fault = "none"
    /\ Len(PairResults') >= 3
    /\ student_enrollments[ThePair'] /= NotEnrolled

\* C24: between a professor override and the classifier the later write
\* wins.  A submit that completes with at least 3 results for its pair
\* leaves the enrollment with the classifier's label for the pair's newest
\* 3 results, whatever level an override had stored before; an override
\* that completes leaves the enrollment with its level L, whatever label a
\* submit had stored before.
C24_LaterWriteWins ==
    [][/\ QualifyingSubmitStep =>
              student_enrollments'[ThePair'] = OwnLabel'
       /\ OverrideStep =>
              student_enrollments'[ThePair'] = request'.proficiency_level]_vars

\* A 4th submit of 100 after three of 100 found the level "beginner" (the
\* level its document records), which only a request that sets the level
\* stores for such results, and left it "advanced".
C24_Witness ==
    /\ SubmitDone
    /\ Len(PairResults) = 4
    /\ \A i \in 1..4 : PairResults[i].percentage = 10000
    /\ PairResults[4].proficiency_level = "beginner"
    /\ student_enrollments[ThePair] = "advanced"

-----------------------------------------------------------------------------
(* Submits side by side, checked under SpecRace *)

\* The pair whose submits run side by side.
RacePair == <<"s1", "c1">>

\* The documents of that pair, oldest first.
RaceResults ==
    SelectSeq(test_results,
              LAMBDA d : /\ d.student_username = RacePair[1]
                         /\ d.course_id = RacePair[2])

\* The six rules on the pair's 3 newest documents.
RaceLabel ==
    LET n == Len(RaceResults)
    IN  IF n < 3 THEN NoneV
        ELSE Label3([i \in 1..3 |-> RaceResults[n - i + 1]])

\* A step after which every thread has completed its submit, taken by a
\* thread that had not.
LastCompletes ==
    /\ \A p \in Procs : pc'[p] = "done"
    /\ \E p \in Procs : pc[p] /= "done"

\* C25: two submits of one pair that run side by side converge.  Whatever
\* the interleaving of their insert, find and update steps, once both have
\* completed the level of the pair's enrollment is the classifier's label
\* for the pair's 3 most recent results.
C25_ConcurrentSubmitsConverge ==
    [][(/\ LastCompletes
        /\ student_enrollments'[RacePair] /= NotEnrolled
        /\ Len(RaceResults') >= 3)
          => student_enrollments'[RacePair] = RaceLabel']_vars

-----------------------------------------------------------------------------
(* Submits after a crash, checked under SpecCrash *)

\* A step by which a thread completes its submit.
CompletesSubmit ==
    \E p \in Procs : pc[p] /= "done" /\ pc'[p] = "done"

\* C26: partial state reconverges.  When a submit has died after its
\* result was inserted and before the enrollment was updated, a later
\* submit of the pair that completes with no submit beside it and at least
\* 3 results stored leaves the enrollment with the classifier's label for
\* the pair's 3 most recent results, the result of the dead submit among
\* them.
C26_ReconvergesAfterCrash ==
    [][(/\ \E q \in Procs : pc[q] = "crashed"
        /\ CompletesSubmit
        /\ student_enrollments'[RacePair] /= NotEnrolled
        /\ Len(RaceResults') >= 3)
          => student_enrollments'[RacePair] = RaceLabel']_vars

\* After results 100 and 100 a submit of 0 died before its update (the
\* level stayed as enrolled, as the next document records), and the next
\* submit of 0 completed and left the level "beginner", the label of 100,
\* 0, 0.
C26_Witness ==
    /\ \E p, q \in Procs :
          /\ pc[p] = "done" /\ pc[q] = "crashed"
          /\ Len(test_results) = 4
          /\ locals[q].doc = test_results[3]
          /\ locals[p].doc = test_results[4]
          /\ locals[p].new_proficiency = "beginner"
    /\ Len(RaceResults) = 4
    /\ RaceResults[1].percentage = 10000 /\ RaceResults[2].percentage = 10000
    /\ RaceResults[3].percentage = 0 /\ RaceResults[4].percentage = 0
    /\ RaceResults[4].proficiency_level = "intermediate"
    /\ student_enrollments[RacePair] = "beginner"

-----------------------------------------------------------------------------
(* No hysteresis, checked under SpecFlow *)

\* The last operation was a submit without a storage failure that left its
\* enrolled pair with at least 3 results.
QualifyingSubmitDone ==
    /\ SubmitDone
    /\ Len(PairResults) >= 3
    /\ student_enrollments[ThePair] /= NotEnrolled

\* The pair's 3 newest documents, oldest first.
Newest3 ==
    LET n == Len(PairResults)
    IN  [i \in 1..3 |-> PairResults[n - 3 + i]]

\* What a state that agrees on the pair's 3 newest percentages can hold
\* before them: nothing, or an older result of 0, 50 or 100 percent.
OlderResults ==
    {<<>>} \cup
    {<<TestResultDoc(response.student, response.course, "intermediate",
                     sc[1], sc[2])>> : sc \in {<<0, 1>>, <<1, 2>>, <<1, 1>>}}

\* C27: no hysteresis.  The level a qualifying submit stores is a function
\* of the pair's 3 most recent percentages alone: the classifier run on any
\* state that agrees on those 3 percentages and differs in the level stored
\* before, in the older results or in the level recorded inside the results
\* ends with the same stored level.
C27_NoHysteresis ==
    QualifyingSubmitDone =>
        \A previous \in Levels \cup {NoneV}, recorded \in Levels,
           older \in OlderResults :
            LET results == older \o [i \in 1..3 |->
                    [Newest3[i] EXCEPT !.proficiency_level = recorded]]
                enrollments ==
                    [student_enrollments EXCEPT ![ThePair] = previous]
                other == CalculateAndUpdate(results, enrollments,
                             response.student, response.course, "none")
            IN  other.enrollments[ThePair] = student_enrollments[ThePair]

\* A qualifying submit on 4 results stored a level other than the one it
\* found, while the documents of its window record different levels and the
\* result that left the window lies in a bucket of its own.
C27_Witness ==
    /\ QualifyingSubmitDone
    /\ Len(PairResults) = 4
    /\ PairResults[4].proficiency_level /= student_enrollments[ThePair]
    /\ PairResults[2].proficiency_level /= PairResults[4].proficiency_level
    /\ \A i \in 2..4 :
          Bucket(PairResults[i].percentage) /= Bucket(PairResults[1].percentage)

-----------------------------------------------------------------------------
(* Ranges of a stored result, checked under Spec *)

\* C28: whatever the submit request holds (any questions list, duplicate
\* or missing question numbers, answers under numbers that are not in the
\* list, null answers), every stored result has
\* 0 <= score <= total_questions and 0 <= percentage <= 100.
C28_ScoreAndPercentageInRange ==
    \A i \in DOMAIN test_results :
        /\ 0 <= test_results[i].score
        /\ test_results[i].score <= test_results[i].total_questions
        /\ 0 <= test_results[i].percentage
        /\ test_results[i].percentage <= 10000

-----------------------------------------------------------------------------
(* Logins side by side, checked under SpecSession *)

\* A step is the existing-token check of a login for a user who holds a
\* stored token.
CheckFindsToken(p) ==
    /\ pc[p] = "find_token" /\ pc'[p] /= "find_token"
    /\ FindTokenByUsername(locals[p].username) /= {}

\* C29: single session per user.  A step never leaves more than one token
\* document for a username, also when two logins of the user run side by
\* side with their existing-token check and their insert as separate
\* steps; and a login for a user who holds a stored token is rejected and
\* leaves the tokens collection as it was.
C29_SingleSessionPerUser ==
    [][/\ \A u \in Usernames :
              Cardinality({i \in DOMAIN tokens' : tokens'[i].username = u}) <= 1
       /\ \A p \in Procs :
              CheckFindsToken(p) =>
                  /\ locals'[p].status >= 400
                  /\ tokens' = tokens]_vars

-----------------------------------------------------------------------------
(* Registrations side by side, checked under SpecSignup *)

\* A step is the find_user check of a registration for a username that has
\* a document.
CheckFindsUser(p) ==
    /\ pc[p] \in {"idle", "done"} /\ pc'[p] = "done"
    /\ locals'[p] /= locals[p]
    /\ locals'[p].op = "register"
    /\ FindUser(locals'[p].username) /= {}

\* C30: usernames are unique.  A step never leaves more than one user
\* document for a username, also when two registrations of the username
\* run side by side with find_user and insert_user as separate steps; and
\* registering a username that has a document is answered with an error
\* and leaves the users collection as it was.
C30_UsernamesUnique ==
    [][/\ \A u \in Usernames :
              Cardinality({i \in DOMAIN users' : users'[i].username = u}) <= 1
       /\ \A p \in Procs :
              CheckFindsUser(p) =>
                  /\ locals'[p].status >= 400
                  /\ users' = users]_vars

====
